---- MODULE Spec2Model ----
(***************************************************************************)
(* Zero-intelligence traders (sdmccabe/zi-traders-go).                     *)
(*                                                                         *)
(* Three revisions of the same program are modelled side by side; the      *)
(* variable rev says which one a behaviour runs:                           *)
(*   "part_000"   src/unnamed/part_000: partitioned workers (doTrades),    *)
(*                one rand generator per worker, -p flag sets numThreads   *)
(*   "part_001"   src/unnamed/part_001: partitioned workers, numThreads    *)
(*                fixed to 1, the global rand source                       *)
(*   "zi-traders" src/zi-traders.go: one goroutine per trade attempt,      *)
(*                a mutex per agent, random numbers from a channel         *)
(* The populations, the value ranges and the attempt budget are package    *)
(* variables of the program; the model draws them from small ranges.      *)
(***************************************************************************)
EXTENDS Integers, Sequences, FiniteSets, TLC

\* ------------------------------------------------------------- bounds
\* Partitioned revisions: populations up to MaxAgents with blocks of at most
\* MaxBlock agents per worker, budgets up to MaxTrades with at most
\* MaxTradesPerThread per worker, up to MaxThreads workers.
MaxAgents == 4
MaxBlock == 3
MaxThreads == 2
MaxTrades == 4
MaxTradesPerThread == 3
\* Lock-based revision: up to MaxGoroutines trade goroutines over populations
\* of up to MaxLockAgents.
MaxGoroutines == 2
MaxLockAgents == 2
\* Reservation values up to MaxValue.
MaxValue == 2

VARIABLES
    rev,                \* which revision runs
    numBuyers, numSellers, maxBuyerValue, maxSellerValue,
    maxNumberOfTrades, numThreads,
    buyersPerThread, sellersPerThread, tradesPerThread,
    buyers, sellers,    \* [0..n-1 -> agent]
    pc,                 \* position of the main goroutine
    launched,           \* openMarket's loop variable i
    wg,                 \* the sync.WaitGroup counter
    threads,            \* the goroutines launched so far, by number
    trades,             \* history: one record per eligibility test that passed
    numberBought, numberSold, sum   \* computeStatistics' locals

vars == <<rev, numBuyers, numSellers, maxBuyerValue, maxSellerValue,
          maxNumberOfTrades, numThreads, buyersPerThread, sellersPerThread,
          tradesPerThread, buyers, sellers, pc, launched, wg, threads, trades,
          numberBought, numberSold, sum>>

config == <<rev, numBuyers, numSellers, maxBuyerValue, maxSellerValue,
            maxNumberOfTrades, numThreads>>

perThread == <<buyersPerThread, sellersPerThread, tradesPerThread>>

statistics == <<numberBought, numberSold, sum>>

Revisions == {"part_000", "part_001", "zi-traders"}

Partitioned == rev \in {"part_000", "part_001"}

LockBased == rev = "zi-traders"

\* ------------------------------------------------------------ helpers

\* Go's integer division truncates toward zero (b # 0).
GoDiv(a, b) ==
    IF (a >= 0) = (b > 0)
    THEN (IF a >= 0 THEN a ELSE -a) \div (IF b > 0 THEN b ELSE -b)
    ELSE -((IF a >= 0 THEN a ELSE -a) \div (IF b > 0 THEN b ELSE -b))

\* The values rand.Intn(n) can return; it panics when n <= 0.
Intn(n) == 0 .. (n - 1)

IntnPanics(n) == n <= 0

\* The values (r % n) takes for r a non-negative rand.Int(): Go's remainder has the
\* sign of the dividend, so a negative n gives 0 .. -n-1; n = 0 panics.
RandMod(n) == IF n >= 0 THEN 0 .. (n - 1) ELSE 0 .. (-n - 1)

RandModPanics(n) == n = 0

\* An agent as initializeAgents builds it: price has Go's zero value.
agent(isBuyer, held, v) ==
    [buyerOrSeller |-> isBuyer, quantityHeld |-> held, value |-> v, price |-> 0]

\* The zi-traders.go agent carries a mutex (FALSE: unlocked).
lockedAgent(isBuyer, held, v) ==
    [buyerOrSeller |-> isBuyer, quantityHeld |-> held, value |-> v, price |-> 0,
     lock |-> FALSE]

\* Mutant: the test forgets to look at the seller's holding.
dealPossible_anySeller(buyer, seller, bidPrice, askPrice) ==
    buyer.quantityHeld = 0 /\ bidPrice >= askPrice

\* Is a deal possible?  (the test of part_000:125, part_001:119, zi-traders.go:109)
dealPossible(buyer, seller, bidPrice, askPrice) ==
    buyer.quantityHeld = 0 /\ seller.quantityHeld = 1 /\ bidPrice >= askPrice

\* The main goroutine and every other goroutine run until the process exits.
Running == pc # "exited"

\* ------------------------------------------------------------ startup

\* The populations and budgets a run with p workers is given.
AgentCounts(p) ==
    IF rev = "zi-traders"
    THEN 1 .. MaxLockAgents
    ELSE {n \in 1 .. MaxAgents : p = 0 \/ GoDiv(n, p) <= MaxBlock}

Budgets(p) ==
    IF rev = "zi-traders"
    THEN 0 .. MaxGoroutines
    ELSE {m \in 0 .. MaxTrades : p = 0 \/ GoDiv(m, p) <= MaxTradesPerThread}

Init ==
    /\ rev \in Revisions
    \* part_001 fixes numThreads to 1; the other two take it from the -p flag
    \* (zi-traders.go never uses it).
    \* The flag is an int that main never validates: -1 stands for the negative
    \* values.
    /\ numThreads \in (IF rev = "part_000" THEN -1 .. MaxThreads ELSE {1})
    /\ numBuyers \in AgentCounts(numThreads)
    /\ numSellers \in AgentCounts(numThreads)
    /\ maxBuyerValue \in 1 .. MaxValue
    /\ maxSellerValue \in 1 .. MaxValue
    /\ maxNumberOfTrades \in Budgets(numThreads)
    \* part_001 computes the per-thread shares in its package initialisers.
    /\ buyersPerThread = (IF rev = "part_001" THEN GoDiv(numBuyers, numThreads) ELSE 0)
    /\ sellersPerThread = (IF rev = "part_001" THEN GoDiv(numSellers, numThreads) ELSE 0)
    /\ tradesPerThread =
          (IF rev = "part_001" THEN GoDiv(maxNumberOfTrades, numThreads) ELSE 0)
    /\ buyers = <<>>
    /\ sellers = <<>>
    /\ pc = "main"
    /\ launched = 0
    /\ wg = 0
    /\ threads = <<>>
    /\ trades = {}
    /\ numberBought = 0
    /\ numberSold = 0
    /\ sum = <<>>

\* main up to the call of initializeAgents.  part_000 divides integers, so
\* numThreads = 0 panics (integer divide by zero) and the process exits.
main ==
    /\ pc = "main"
    /\ IF rev = "part_001"
       THEN /\ pc' = "initializeAgents"
            /\ UNCHANGED perThread
       ELSE IF numThreads = 0
       THEN /\ pc' = "exited"
            /\ UNCHANGED perThread
       ELSE /\ buyersPerThread' = GoDiv(numBuyers, numThreads)
            /\ sellersPerThread' = GoDiv(numSellers, numThreads)
            /\ tradesPerThread' = GoDiv(maxNumberOfTrades, numThreads)
            /\ pc' = "initializeAgents"
    /\ UNCHANGED <<config, buyers, sellers, launched, wg, threads, trades, statistics>>

\* The reservation values a buyer, a seller can be given.
buyerValues ==
    IF rev = "part_000"
    THEN {k + 1 : k \in Intn(maxBuyerValue)}
    ELSE {k + 1 : k \in RandMod(maxBuyerValue)}

sellerValues ==
    IF rev = "part_000"
    THEN {k + 1 : k \in Intn(maxSellerValue)}
    ELSE {k + 1 : k \in RandMod(maxBuyerValue)}

newAgent(isBuyer, held, v) ==
    IF rev = "zi-traders" THEN lockedAgent(isBuyer, held, v) ELSE agent(isBuyer, held, v)

initializeAgents ==
    /\ pc = "initializeAgents"
    /\ buyers' \in [0 .. (numBuyers - 1) -> {newAgent(TRUE, 0, v) : v \in buyerValues}]
    /\ sellers' \in [0 .. (numSellers - 1) -> {newAgent(FALSE, 1, v) : v \in sellerValues}]
    /\ pc' = "openMarket"
    /\ UNCHANGED <<config, perThread, launched, wg, threads, trades, statistics>>

\* ------------------------------------------------------- openMarket

\* openMarket's first statements: zi-traders.go adds every trade goroutine to
\* the WaitGroup at once, the partitioned revisions add one per launch.
openMarket ==
    /\ pc = "openMarket"
    /\ wg' = (IF LockBased THEN wg + maxNumberOfTrades ELSE wg)
    /\ pc' = "launch"
    /\ UNCHANGED <<config, perThread, buyers, sellers, launched, threads, trades,
                   statistics>>

\* A doTrades goroutine about to enter its loop (for i := 1; ...).
\* attempts (history) counts the loop bodies the goroutine has run to their end.
worker ==
    [pc |-> "loop", i |-> 1, attempts |-> 0, buyerIndex |-> 0, sellerIndex |-> 0,
     bidPrice |-> 0, askPrice |-> 0, transactionPrice |-> 0]

\* One turn of the launching loop of the partitioned revisions: wg.Add(1), go.
launchWorker ==
    /\ pc = "launch"
    /\ Partitioned
    /\ launched < numThreads
    /\ wg' = wg + 1
    /\ threads' = (launched :> worker) @@ threads
    /\ launched' = launched + 1
    /\ UNCHANGED <<config, perThread, buyers, sellers, pc, trades, statistics>>

\* The launching loop ends; the main goroutine goes on to wg.Wait().
launchDone ==
    /\ pc = "launch"
    /\ launched >= (IF LockBased THEN maxNumberOfTrades ELSE numThreads)
    /\ pc' = "wait"
    /\ UNCHANGED <<config, perThread, buyers, sellers, launched, wg, threads, trades,
                   statistics>>

\* Mutant: a Wait that never blocks.
waitReturns_atOnce == TRUE

\* wg.Wait() returns when the counter is zero.
waitReturns == wg = 0

wait ==
    /\ pc = "wait"
    /\ waitReturns
    /\ pc' = "computeStatistics"
    /\ UNCHANGED <<config, perThread, buyers, sellers, launched, wg, threads, trades,
                   statistics>>

\* ---------------------------------------------------------- doTrades

\* Mutant: every worker's buyer range starts at index 0.
lowerBuyerBound_zero(threadNum) == 0

lowerBuyerBound(threadNum) == threadNum * buyersPerThread

upperBuyerBound(threadNum) == (threadNum + 1) * buyersPerThread - 1

lowerSellerBound(threadNum) == threadNum * sellersPerThread

upperSellerBound(threadNum) == (threadNum + 1) * sellersPerThread - 1

\* The indices a worker's attempt can select.
buyerChoices(threadNum) ==
    {lowerBuyerBound(threadNum) + k :
        k \in Intn(upperBuyerBound(threadNum) - lowerBuyerBound(threadNum))}

sellerChoices(threadNum) ==
    {lowerSellerBound(threadNum) + k :
        k \in Intn(upperSellerBound(threadNum) - lowerSellerBound(threadNum))}

\* The bid and ask prices an attempt can draw (partitioned revisions: Intn).
bidPrices(buyer) == {k + 1 : k \in Intn(buyer.value)}

askPrices(seller) == {seller.value + k : k \in Intn(maxSellerValue - seller.value + 1)}

\* Mutant: the spread is taken to be bidPrice + 1 wide.
transactionPrices_wide(askPrice, bidPrice) ==
    {askPrice + k : k \in Intn(bidPrice + 1)}

transactionPrices(askPrice, bidPrice) ==
    {askPrice + k : k \in Intn(bidPrice - askPrice + 1)}

\* Mutant: a loop that runs one pass beyond the per-thread share.
loopContinues_overrun(i) == i <= tradesPerThread + 1

\* Mutant: a loop whose body runs before the first test.
loopContinues_bodyFirst(i) == i = 1 \/ i < tradesPerThread

\* The loop test of doTrades.
loopContinues(i) == i < tradesPerThread

\* Whether the index draws of an attempt of this worker panic.
selectPanics(threadNum) ==
    \/ IntnPanics(upperBuyerBound(threadNum) - lowerBuyerBound(threadNum))
    \/ IntnPanics(upperSellerBound(threadNum) - lowerSellerBound(threadNum))

IsThread(t, at) ==
    /\ Running
    /\ t \in DOMAIN threads
    /\ threads[t].pc = at

IsWorker(t, at) == Partitioned /\ IsThread(t, at)

\* One trade attempt up to and including the test "is a deal possible?" and the
\* draw of the transaction price.
doTrades_attempt(t) ==
    /\ IsWorker(t, "loop")
    /\ loopContinues(threads[t].i)
    /\ ~selectPanics(t)
    /\ \E buyerIndex \in buyerChoices(t), sellerIndex \in sellerChoices(t) :
         /\ ~IntnPanics(maxSellerValue - sellers[sellerIndex].value + 1)
         /\ \E bidPrice \in bidPrices(buyers[buyerIndex]),
               askPrice \in askPrices(sellers[sellerIndex]) :
              IF dealPossible(buyers[buyerIndex], sellers[sellerIndex], bidPrice, askPrice)
              THEN \E transactionPrice \in transactionPrices(askPrice, bidPrice) :
                     /\ threads' = [threads EXCEPT ![t] =
                            [pc |-> "buyerPrice", i |-> threads[t].i,
                             attempts |-> threads[t].attempts,
                             buyerIndex |-> buyerIndex, sellerIndex |-> sellerIndex,
                             bidPrice |-> bidPrice, askPrice |-> askPrice,
                             transactionPrice |-> transactionPrice]]
                     /\ trades' = trades \cup
                            {[buyer |-> buyerIndex, seller |-> sellerIndex,
                              price |-> transactionPrice, by |-> t,
                              attempt |-> threads[t].attempts + 1]}
              ELSE /\ threads' = [threads EXCEPT ![t].i = @ + 1,
                                                  ![t].attempts = @ + 1]
                   /\ UNCHANGED trades
    /\ UNCHANGED <<config, perThread, buyers, sellers, pc, launched, wg, statistics>>

\* An attempt whose rand.Intn panics: the deferred wg.Done() runs while the
\* goroutine unwinds, then the runtime ends the process (exit below).
doTrades_panic(t) ==
    /\ IsWorker(t, "loop")
    /\ loopContinues(threads[t].i)
    /\ \/ selectPanics(t)
       \/ /\ ~selectPanics(t)
          /\ \E sellerIndex \in sellerChoices(t) :
               IntnPanics(maxSellerValue - sellers[sellerIndex].value + 1)
    /\ threads' = [threads EXCEPT ![t].pc = "panicked"]
    /\ wg' = wg - 1
    /\ UNCHANGED <<config, perThread, buyers, sellers, pc, launched, trades, statistics>>

\* doTrades returns; the deferred wg.Done() runs.
doTrades_return(t) ==
    /\ IsWorker(t, "loop")
    /\ ~loopContinues(threads[t].i)
    /\ threads' = [threads EXCEPT ![t].pc = "done"]
    /\ wg' = wg - 1
    /\ UNCHANGED <<config, perThread, buyers, sellers, pc, launched, trades, statistics>>

\* An unrecovered panic ends the process, at any moment after the panicking
\* goroutine's deferred calls have run.
exit ==
    /\ Running
    /\ \E t \in DOMAIN threads : threads[t].pc = "panicked"
    /\ pc' = "exited"
    /\ UNCHANGED <<config, perThread, buyers, sellers, launched, wg, threads, trades,
                   statistics>>

\* ------------------------------------------ the four writes of a trade
\* The body of "if deal possible" is the same in doTrades (part_000:128-133,
\* part_001:123-128) and in makeTrade (zi-traders.go:113-118): four plain stores.

\* Mutant: the buyer's price is not stored.
setBuyerPrice_skipped(t) ==
    /\ IsThread(t, "buyerPrice")
    /\ threads' = [threads EXCEPT ![t].pc = "sellerPrice"]
    /\ UNCHANGED <<config, perThread, buyers, sellers, pc, launched, wg, trades,
                   statistics>>

setBuyerPrice(t) ==
    /\ IsThread(t, "buyerPrice")
    /\ buyers' = [buyers EXCEPT ![threads[t].buyerIndex].price = threads[t].transactionPrice]
    /\ threads' = [threads EXCEPT ![t].pc = "sellerPrice"]
    /\ UNCHANGED <<config, perThread, sellers, pc, launched, wg, trades, statistics>>

setSellerPrice(t) ==
    /\ IsThread(t, "sellerPrice")
    /\ sellers' = [sellers EXCEPT ![threads[t].sellerIndex].price = threads[t].transactionPrice]
    /\ threads' = [threads EXCEPT ![t].pc = "buyerQuantity"]
    /\ UNCHANGED <<config, perThread, buyers, pc, launched, wg, trades, statistics>>

\* Mutant: the buyer's third store lands in value instead of quantityHeld.
setBuyerQuantity_value(t) ==
    /\ IsThread(t, "buyerQuantity")
    /\ buyers' = [buyers EXCEPT ![threads[t].buyerIndex].value = 1]
    /\ threads' = [threads EXCEPT ![t].pc = "sellerQuantity"]
    /\ UNCHANGED <<config, perThread, sellers, pc, launched, wg, trades, statistics>>

setBuyerQuantity(t) ==
    /\ IsThread(t, "buyerQuantity")
    /\ buyers' = [buyers EXCEPT ![threads[t].buyerIndex].quantityHeld = 1]
    /\ threads' = [threads EXCEPT ![t].pc = "sellerQuantity"]
    /\ UNCHANGED <<config, perThread, sellers, pc, launched, wg, trades, statistics>>

\* Mutant: the last store writes 1, so the seller keeps its unit.
setSellerQuantity_keeps(t) ==
    /\ IsThread(t, "sellerQuantity")
    /\ sellers' = [sellers EXCEPT ![threads[t].sellerIndex].quantityHeld = 1]
    /\ threads' = [threads EXCEPT ![t] =
           IF Partitioned
           THEN [worker EXCEPT !.i = threads[t].i + 1,
                               !.attempts = threads[t].attempts + 1]
           ELSE [threads[t] EXCEPT !.pc = "unlockBuyer", !.attempts = @ + 1]]
    /\ UNCHANGED <<config, perThread, buyers, pc, launched, wg, trades, statistics>>

\* After the last store a worker goes round its loop (i++, the attempt's locals
\* go out of scope); makeTrade returns to the goroutine, which unlocks.
setSellerQuantity(t) ==
    /\ IsThread(t, "sellerQuantity")
    /\ sellers' = [sellers EXCEPT ![threads[t].sellerIndex].quantityHeld = 0]
    /\ threads' = [threads EXCEPT ![t] =
           IF Partitioned
           THEN [worker EXCEPT !.i = threads[t].i + 1,
                               !.attempts = threads[t].attempts + 1]
           ELSE [threads[t] EXCEPT !.pc = "unlockBuyer", !.attempts = @ + 1]]
    /\ UNCHANGED <<config, perThread, buyers, pc, launched, wg, trades, statistics>>

\* ------------------------------------- zi-traders.go: goroutine per trade

\* A trade goroutine about to lock its buyer.
tradeGoroutine(b, s) ==
    [pc |-> "lockBuyer", i |-> 0, attempts |-> 0, buyerIndex |-> b, sellerIndex |-> s,
     bidPrice |-> 0, askPrice |-> 0, transactionPrice |-> 0]

\* One turn of openMarket's loop: pick a buyer and a seller, go.
launchTrade ==
    /\ pc = "launch"
    /\ LockBased
    /\ launched < maxNumberOfTrades
    /\ \E b \in Intn(numBuyers), s \in Intn(numSellers) :
         threads' = (launched :> tradeGoroutine(b, s)) @@ threads
    /\ launched' = launched + 1
    /\ UNCHANGED <<config, perThread, buyers, sellers, pc, wg, trades, statistics>>

IsGoroutine(t, at) == LockBased /\ IsThread(t, at)

\* Mutant: Lock that does not wait for the mutex to be free.
lockBuyer_noWait(t) ==
    /\ IsGoroutine(t, "lockBuyer")
    /\ buyers' = [buyers EXCEPT ![threads[t].buyerIndex].lock = TRUE]
    /\ threads' = [threads EXCEPT ![t].pc = "lockSeller"]
    /\ UNCHANGED <<config, perThread, sellers, pc, launched, wg, trades, statistics>>

\* sync.Mutex.Lock blocks while the mutex is held.
lockBuyer(t) ==
    /\ IsGoroutine(t, "lockBuyer")
    /\ ~buyers[threads[t].buyerIndex].lock
    /\ buyers' = [buyers EXCEPT ![threads[t].buyerIndex].lock = TRUE]
    /\ threads' = [threads EXCEPT ![t].pc = "lockSeller"]
    /\ UNCHANGED <<config, perThread, sellers, pc, launched, wg, trades, statistics>>

\* Mutant: Lock of the seller that does not wait for the mutex to be free.
lockSeller_noWait(t) ==
    /\ IsGoroutine(t, "lockSeller")
    /\ sellers' = [sellers EXCEPT ![threads[t].sellerIndex].lock = TRUE]
    /\ threads' = [threads EXCEPT ![t].pc = "makeTrade"]
    /\ UNCHANGED <<config, perThread, buyers, pc, launched, wg, trades, statistics>>

lockSeller(t) ==
    /\ IsGoroutine(t, "lockSeller")
    /\ ~sellers[threads[t].sellerIndex].lock
    /\ sellers' = [sellers EXCEPT ![threads[t].sellerIndex].lock = TRUE]
    /\ threads' = [threads EXCEPT ![t].pc = "makeTrade"]
    /\ UNCHANGED <<config, perThread, buyers, pc, launched, wg, trades, statistics>>

\* The prices makeTrade computes from the numbers it receives from randomNumbers
\* (the producer goroutine never stops sending, so a receive always completes).
lockBidPrices(buyer) == {k + 1 : k \in RandMod(buyer.value)}

lockAskPrices(seller) ==
    {seller.value + k : k \in RandMod(maxSellerValue - seller.value + 1)}

lockTransactionPrices(askPrice, bidPrice) ==
    {askPrice + k : k \in RandMod(bidPrice - askPrice + 1)}

\* makeTrade up to and including the test and the draw of the transaction price.
makeTrade(t) ==
    /\ IsGoroutine(t, "makeTrade")
    /\ LET buyer == buyers[threads[t].buyerIndex]
           seller == sellers[threads[t].sellerIndex]
       IN /\ ~RandModPanics(maxSellerValue - seller.value + 1)
          /\ \E bidPrice \in lockBidPrices(buyer), askPrice \in lockAskPrices(seller) :
               IF dealPossible(buyer, seller, bidPrice, askPrice)
               THEN \E transactionPrice \in lockTransactionPrices(askPrice, bidPrice) :
                      /\ threads' = [threads EXCEPT ![t] =
                             [@ EXCEPT !.pc = "buyerPrice", !.bidPrice = bidPrice,
                                       !.askPrice = askPrice,
                                       !.transactionPrice = transactionPrice]]
                      /\ trades' = trades \cup
                             {[buyer |-> threads[t].buyerIndex,
                               seller |-> threads[t].sellerIndex,
                               price |-> transactionPrice, by |-> t, attempt |-> 1]}
               ELSE /\ threads' = [threads EXCEPT ![t].pc = "unlockBuyer",
                                                   ![t].attempts = @ + 1]
                    /\ UNCHANGED trades
    /\ UNCHANGED <<config, perThread, buyers, sellers, pc, launched, wg, statistics>>

\* The ask price's modulus is zero: integer divide by zero.  The goroutine
\* panics holding both locks, its deferred wg.Done() runs, the process exits.
makeTrade_panic(t) ==
    /\ IsGoroutine(t, "makeTrade")
    /\ RandModPanics(maxSellerValue - sellers[threads[t].sellerIndex].value + 1)
    /\ threads' = [threads EXCEPT ![t].pc = "panicked"]
    /\ wg' = wg - 1
    /\ UNCHANGED <<config, perThread, buyers, sellers, pc, launched, trades, statistics>>

unlockBuyer(t) ==
    /\ IsGoroutine(t, "unlockBuyer")
    /\ buyers' = [buyers EXCEPT ![threads[t].buyerIndex].lock = FALSE]
    /\ threads' = [threads EXCEPT ![t].pc = "unlockSeller"]
    /\ UNCHANGED <<config, perThread, sellers, pc, launched, wg, trades, statistics>>

\* seller.lock.Unlock(), the goroutine returns, the deferred wg.Done() runs.
unlockSeller(t) ==
    /\ IsGoroutine(t, "unlockSeller")
    /\ sellers' = [sellers EXCEPT ![threads[t].sellerIndex].lock = FALSE]
    /\ threads' = [threads EXCEPT ![t].pc = "done"]
    /\ wg' = wg - 1
    /\ UNCHANGED <<config, perThread, buyers, pc, launched, trades, statistics>>

\* ------------------------------------------------- computeStatistics

\* The prices, in index order, of the agents among the first n that hold q.
RECURSIVE pricesHolding(_, _, _)
pricesHolding(agents, n, q) ==
    IF n = 0
    THEN <<>>
    ELSE pricesHolding(agents, n - 1, q) \o
         (IF agents[n - 1].quantityHeld = q THEN <<agents[n - 1].price>> ELSE <<>>)

\* sum as it is made: part_000 makes an empty slice, the other two revisions
\* make(stat.IntSlice, 1), a slice holding one zero.
madeSum == IF rev = "part_000" THEN <<>> ELSE <<0>>

computeStatistics ==
    /\ pc = "computeStatistics"
    /\ numberBought' = Len(pricesHolding(buyers, numBuyers, 1))
    /\ numberSold' = Len(pricesHolding(sellers, numSellers, 0))
    /\ sum' = madeSum \o pricesHolding(buyers, numBuyers, 1)
                      \o pricesHolding(sellers, numSellers, 0)
    /\ pc' = "done"
    /\ UNCHANGED <<config, perThread, buyers, sellers, launched, wg, threads, trades>>

\* ------------------------------------------------------ specification

Threads == 0 .. ((IF MaxThreads > MaxGoroutines THEN MaxThreads ELSE MaxGoroutines) - 1)

Next ==
    \/ main
    \/ initializeAgents
    \/ openMarket
    \/ launchWorker
    \/ launchTrade
    \/ launchDone
    \/ wait
    \/ computeStatistics
    \/ exit
    \/ \E t \in Threads :
         \/ doTrades_attempt(t)
         \/ doTrades_panic(t)
         \/ doTrades_return(t)
         \/ setBuyerPrice(t)
         \/ setSellerPrice(t)
         \/ setBuyerQuantity(t)
         \/ setSellerQuantity(t)
         \/ lockBuyer(t)
         \/ lockSeller(t)
         \/ makeTrade(t)
         \/ makeTrade_panic(t)
         \/ unlockBuyer(t)
         \/ unlockSeller(t)

Spec == Init /\ [][Next]_vars

\* zi-traders.go on its own, under the Go scheduler: every goroutine that can
\* run is run eventually, a panic ends the process, and a goroutine blocked in
\* Lock gets the mutex once it stays free.
LockInit == Init /\ rev = "zi-traders"

mainStep ==
    \/ main
    \/ initializeAgents
    \/ openMarket
    \/ launchTrade
    \/ launchDone
    \/ wait
    \/ computeStatistics

goroutineStep(t) ==
    \/ lockBuyer(t)
    \/ lockSeller(t)
    \/ makeTrade(t)
    \/ makeTrade_panic(t)
    \/ setBuyerPrice(t)
    \/ setSellerPrice(t)
    \/ setBuyerQuantity(t)
    \/ setSellerQuantity(t)
    \/ unlockBuyer(t)
    \/ unlockSeller(t)

LockNext ==
    \/ mainStep
    \/ exit
    \/ \E t \in 0 .. (MaxGoroutines - 1) : goroutineStep(t)

LockSpec ==
    /\ LockInit
    /\ [][LockNext]_vars
    /\ WF_vars(mainStep)
    /\ WF_vars(exit)
    /\ \A t \in 0 .. (MaxGoroutines - 1) : WF_vars(goroutineStep(t))

\* ------------------------------------------------------------ claims

\* The positions of a goroutine between the eligibility test and its last store.
WritePcs == {"buyerPrice", "sellerPrice", "buyerQuantity", "sellerQuantity"}

\* C1: under every interleaving a buyer's quantityHeld only ever changes from 0
\* to 1 and a seller's only from 1 to 0 (so each changes at most once), and no
\* two passed eligibility tests share a buyer or share a seller: no agent is a
\* party to more than one successful trade.
C1_HoldingChangesOnce ==
    [][/\ \A k \in DOMAIN buyers :
             buyers'[k].quantityHeld # buyers[k].quantityHeld
                 => buyers[k].quantityHeld = 0 /\ buyers'[k].quantityHeld = 1
       /\ \A k \in DOMAIN sellers :
             sellers'[k].quantityHeld # sellers[k].quantityHeld
                 => sellers[k].quantityHeld = 1 /\ sellers'[k].quantityHeld = 0
       /\ \A e1, e2 \in trades' :
             e1 # e2 => e1.buyer # e2.buyer /\ e1.seller # e2.seller]_vars

\* Two trade goroutines were given the same buyer; the first has traded and
\* released the locks, the second now runs makeTrade on the buyer that holds 1.
C1_Witness ==
    /\ LockBased
    /\ \E t \in DOMAIN threads :
         /\ threads[t].pc = "makeTrade"
         /\ buyers[threads[t].buyerIndex].quantityHeld = 1
         /\ sellers[threads[t].sellerIndex].quantityHeld = 1
         /\ \E e \in trades : e.buyer = threads[t].buyerIndex /\ e.by # t

\* C2: when computeStatistics runs, the number of buyers holding 1 equals the
\* number of sellers holding 0, and these are the counts it reports.
C2_BoughtEqualsSold ==
    /\ pc = "computeStatistics"
         => Len(pricesHolding(buyers, numBuyers, 1))
              = Len(pricesHolding(sellers, numSellers, 0))
    /\ pc = "done" => numberBought = numberSold

\* computeStatistics has counted two trades.
C2_Witness == pc = "done" /\ numberBought = 2 /\ numberSold = 2

\* The workers of a partitioned run, and the blocks the claims speak of.
Workers == 0 .. (numThreads - 1)

buyerBlock(t) == (t * buyersPerThread) .. ((t + 1) * buyersPerThread - 1)

sellerBlock(t) == (t * sellersPerThread) .. ((t + 1) * sellersPerThread - 1)

\* openMarket has been entered: the per-thread shares are set.
Partitioning == Partitioned /\ pc \in {"launch", "wait", "computeStatistics", "done"}

\* C3: partition coverage: the sets of buyer indices the workers can select
\* are pairwise disjoint and their union is exactly 0 .. numBuyers-1, and
\* likewise for sellers.
C3_PartitionCoverage ==
    Partitioning /\ numThreads >= 1 =>
        /\ UNION {buyerChoices(t) : t \in Workers} = 0 .. (numBuyers - 1)
        /\ UNION {sellerChoices(t) : t \in Workers} = 0 .. (numSellers - 1)
        /\ \A t1, t2 \in Workers :
             t1 # t2 => /\ buyerChoices(t1) \cap buyerChoices(t2) = {}
                        /\ sellerChoices(t1) \cap sellerChoices(t2) = {}

\* C4: no cross-worker selection: every index a worker can select, and every
\* index it has selected, lies in its own block; different workers' selectable
\* sets are disjoint; and a step of a worker leaves every agent outside its own
\* blocks unchanged.
C4_NoCrossWorkerSelection ==
    [][Partitioning' =>
        /\ \A t \in Workers :
             /\ buyerChoices(t)' \subseteq buyerBlock(t)'
             /\ sellerChoices(t)' \subseteq sellerBlock(t)'
        /\ \A t1, t2 \in Workers :
             t1 # t2 => /\ buyerChoices(t1)' \cap buyerChoices(t2)' = {}
                        /\ sellerChoices(t1)' \cap sellerChoices(t2)' = {}
        /\ \A t \in DOMAIN threads' :
             threads'[t].pc \in WritePcs
                 => /\ threads'[t].buyerIndex \in buyerBlock(t)'
                    /\ threads'[t].sellerIndex \in sellerBlock(t)'
        /\ \A t \in DOMAIN threads :
             threads'[t] # threads[t]
                 => /\ \A k \in DOMAIN buyers \ buyerBlock(t) : buyers'[k] = buyers[k]
                    /\ \A k \in DOMAIN sellers \ sellerBlock(t) :
                          sellers'[k] = sellers[k]]_vars

\* Two workers are both between their eligibility test and their last store.
C4_Witness ==
    /\ Partitioned
    /\ \E t1, t2 \in DOMAIN threads :
         /\ t1 # t2
         /\ threads[t1].pc \in WritePcs
         /\ threads[t2].pc \in WritePcs
         /\ threads[t1].buyerIndex # threads[t2].buyerIndex

\* C5: a worker that has returned from doTrades has performed exactly
\* tradesPerThread trade attempts.
C5_ExactlyBudgetAttempts ==
    Partitioned =>
        \A t \in DOMAIN threads :
            threads[t].pc = "done" => threads[t].attempts = tradesPerThread

\* C6: barrier ordering: while computeStatistics runs, and after it, every
\* goroutine openMarket was to launch has been launched and has ended: none has
\* an attempt pending or in progress.
C6_BarrierOrdering ==
    pc \in {"computeStatistics", "done"} =>
        /\ launched >= (IF LockBased THEN maxNumberOfTrades ELSE numThreads)
        /\ DOMAIN threads = 0 .. (launched - 1)
        /\ \A t \in DOMAIN threads : threads[t].pc \in {"done", "panicked"}

\* computeStatistics is about to run after two goroutines that both traded.
C6_Witness ==
    /\ pc = "computeStatistics"
    /\ Cardinality(DOMAIN threads) = 2
    /\ Cardinality(trades) = 2

\* The goroutine that passed the test recorded as e is still storing its result.
Storing(e) ==
    /\ threads[e.by].pc \in WritePcs
    /\ threads[e.by].attempts + 1 = e.attempt

\* C7: every executed trade has bidPrice >= askPrice and askPrice <=
\* transactionPrice <= bidPrice; the same transactionPrice is stored in the
\* buyer's and in the seller's price; every recorded price lies between 1 and
\* the reservation value of the trade's buyer.
C7_PriceWithinSpread ==
    /\ \A t \in DOMAIN threads :
         /\ threads[t].pc \in WritePcs
              => /\ threads[t].bidPrice >= threads[t].askPrice
                 /\ threads[t].askPrice <= threads[t].transactionPrice
                 /\ threads[t].transactionPrice <= threads[t].bidPrice
         /\ threads[t].pc \in {"buyerQuantity", "sellerQuantity"}
              => /\ buyers[threads[t].buyerIndex].price = threads[t].transactionPrice
                 /\ sellers[threads[t].sellerIndex].price = threads[t].transactionPrice
    /\ \A e \in trades :
         /\ 1 <= e.price
         /\ e.price <= buyers[e.buyer].value
         /\ ~Storing(e) => /\ buyers[e.buyer].price = e.price
                           /\ sellers[e.seller].price = e.price
    /\ \A k \in DOMAIN buyers :
         buyers[k].price # 0 => \E e \in trades : e.buyer = k /\ e.price = buyers[k].price
    /\ \A k \in DOMAIN sellers :
         sellers[k].price # 0
             => \E e \in trades : e.seller = k /\ e.price = sellers[k].price

\* A trade with bidPrice above askPrice has stored its price in both agents.
C7_Witness ==
    \E t \in DOMAIN threads :
        /\ threads[t].pc = "buyerQuantity"
        /\ threads[t].bidPrice > threads[t].askPrice
        /\ buyers[threads[t].buyerIndex].price = threads[t].transactionPrice

\* quantityHeld or price of some agent differs between the two states of a step.
AgentsChange ==
    \/ \E k \in DOMAIN buyers :
         \/ buyers'[k].quantityHeld # buyers[k].quantityHeld
         \/ buyers'[k].price # buyers[k].price
    \/ \E k \in DOMAIN sellers :
         \/ sellers'[k].quantityHeld # sellers[k].quantityHeld
         \/ sellers'[k].price # sellers[k].price

\* C8: a step changes quantityHeld or price of an agent only if it is a store
\* of a goroutine whose attempt found buyer.quantityHeld = 0, seller.quantityHeld
\* = 1 and bidPrice >= askPrice (no store of another goroutine has touched the
\* pair since), and then it changes the selected buyer and seller only; so an
\* attempt that fails one of the three conditions changes no agent.
C8_OnlyEligibleAttemptsWrite ==
    [][AgentsChange =>
        \E t \in DOMAIN threads :
            /\ threads[t].pc \in WritePcs
            /\ threads'[t] # threads[t]
            /\ threads[t].bidPrice >= threads[t].askPrice
            /\ sellers[threads[t].sellerIndex].quantityHeld = 1
            /\ buyers[threads[t].buyerIndex].quantityHeld =
                   (IF threads[t].pc = "sellerQuantity" THEN 1 ELSE 0)
            /\ \A k \in DOMAIN buyers \ {threads[t].buyerIndex} : buyers'[k] = buyers[k]
            /\ \A k \in DOMAIN sellers \ {threads[t].sellerIndex} :
                  sellers'[k] = sellers[k]]_vars

\* A worker has made two attempts: one traded, the other was refused.
C8_Witness ==
    \E t \in DOMAIN threads :
        /\ threads[t].pc = "loop"
        /\ threads[t].attempts = 2
        /\ Cardinality({e \in trades : e.by = t}) = 1

\* Some goroutine is between its eligibility test and its last store on the agent.
StoringBuyer(k) ==
    \E t \in DOMAIN threads : threads[t].pc \in WritePcs /\ threads[t].buyerIndex = k

StoringSeller(k) ==
    \E t \in DOMAIN threads : threads[t].pc \in WritePcs /\ threads[t].sellerIndex = k

\* C9: for every agent that no trade is in the middle of updating, price is set
\* (non-zero) if and only if its holding has transitioned (buyer holds 1, seller
\* holds 0); and a price once set never changes.
C9_PriceSetIffTraded ==
    [][/\ \A k \in DOMAIN buyers' :
            ~StoringBuyer(k)' => (buyers'[k].price # 0 <=> buyers'[k].quantityHeld = 1)
       /\ \A k \in DOMAIN sellers' :
            ~StoringSeller(k)'
                => (sellers'[k].price # 0 <=> sellers'[k].quantityHeld = 0)
       /\ \A k \in DOMAIN buyers :
            buyers[k].price # 0 => buyers'[k].price = buyers[k].price
       /\ \A k \in DOMAIN sellers :
            sellers[k].price # 0 => sellers'[k].price = sellers[k].price]_vars

\* The run is over with a buyer that traded and a buyer that did not.
C9_Witness ==
    /\ pc = "done"
    /\ \E k1, k2 \in DOMAIN buyers :
         /\ buyers[k1].price # 0 /\ buyers[k1].quantityHeld = 1
         /\ buyers[k2].price = 0 /\ buyers[k2].quantityHeld = 0

\* C10: the sample computeStatistics hands to the mean and the standard
\* deviation is exactly the prices of the traded agents, so its length is
\* numberBought + numberSold.
C10_SampleIsTradedPrices ==
    pc = "done" =>
        /\ sum = pricesHolding(buyers, numBuyers, 1) \o pricesHolding(sellers, numSellers, 0)
        /\ Len(sum) = numberBought + numberSold

\* C11: the number of units bought that computeStatistics reports is at most
\* the number of buyers, at most the number of sellers, and at most the total
\* attempt budget maxNumberOfTrades.
C11_BoughtBounded ==
    pc = "done" =>
        /\ numberBought <= numBuyers
        /\ numberBought <= numSellers
        /\ numberBought <= maxNumberOfTrades

\* A run that reports as many units bought as all three limits allow.
C11_Witness ==
    /\ pc = "done"
    /\ numberBought >= 2
    /\ numberBought = maxNumberOfTrades
    /\ numberBought = numBuyers
    /\ numberBought = numSellers

\* The attempts made so far by all goroutines.
RECURSIVE attemptsUpTo(_)
attemptsUpTo(n) ==
    IF n = 0 THEN 0 ELSE attemptsUpTo(n - 1) + threads[n - 1].attempts

\* C12: a run with at least one worker and an attempt budget of 0 is a valid
\* degenerate run: no goroutine makes an attempt or fails, nothing is traded,
\* every state short of the summary has a next step (the barrier is passed and
\* computeStatistics runs), and the summary reports 0 bought and 0 sold.
C12_ZeroBudgetRun ==
    (maxNumberOfTrades = 0 /\ numThreads >= 1) =>
        /\ attemptsUpTo(launched) = 0
        /\ trades = {}
        /\ \A t \in DOMAIN threads : threads[t].pc # "panicked"
        /\ pc # "exited"
        /\ pc # "done" => ENABLED Next
        /\ pc = "done" => numberBought = 0 /\ numberSold = 0

\* A run of two workers under a budget of 0 that has printed its summary.
C12_Witness ==
    /\ pc = "done"
    /\ maxNumberOfTrades = 0
    /\ numThreads = 2
    /\ \A t \in 0 .. 1 : t \in DOMAIN threads /\ threads[t].pc = "done"

\* C13: once initializeAgents has filled the slices, every buyer's value lies
\* in 1 .. maxBuyerValue and every seller's value in 1 .. maxSellerValue, so
\* the ask range seller.value .. maxSellerValue is never empty.
C13_ValuesWithinLimits ==
    /\ \A k \in DOMAIN buyers : buyers[k].value \in 1 .. maxBuyerValue
    /\ \A k \in DOMAIN sellers :
          /\ sellers[k].value \in 1 .. maxSellerValue
          /\ sellers[k].value .. maxSellerValue # {}

\* C14: a worker count of zero or less is rejected before anything else
\* happens: the run never gets past main, so no agent is created, no worker is
\* launched, no attempt is made and no summary is produced.
C14_WorkerCountRejected ==
    numThreads <= 0 =>
        /\ pc \in {"main", "exited"}
        /\ DOMAIN buyers = {}
        /\ DOMAIN sellers = {}
        /\ DOMAIN threads = {}
        /\ trades = {}

\* The positions of a trade goroutine inside makeTrade.
InMakeTrade == {"makeTrade"} \cup WritePcs

\* Nobody but t1 can touch the two agents of the trade t1 is in the middle of:
\* no other worker can select them or is storing into them, no other trade
\* goroutine is inside makeTrade with either, and the main goroutine is not
\* reading the slices.
TradeIsolated(t1) ==
    LET b == threads[t1].buyerIndex
        s == threads[t1].sellerIndex
    IN /\ pc \in {"launch", "wait"}
       /\ \A t2 \in DOMAIN threads \ {t1} :
            IF Partitioned
            THEN /\ loopContinues(threads[t2].i) /\ ~selectPanics(t2) =>
                        b \notin buyerChoices(t2) /\ s \notin sellerChoices(t2)
                 /\ threads[t2].pc \in WritePcs =>
                        threads[t2].buyerIndex # b /\ threads[t2].sellerIndex # s
            ELSE threads[t2].pc \in InMakeTrade =>
                        threads[t2].buyerIndex # b /\ threads[t2].sellerIndex # s

\* C15: a successful trade is one logically atomic step.  From the passed
\* eligibility test until both agents are updated no other goroutine reads or
\* writes either agent: every step that is not the trading goroutine's own
\* leaves both agents as they are, and in the lock-based revision no two
\* goroutines are inside makeTrade with a common buyer or a common seller.
C15_TradeIsAtomic ==
    [][/\ \A t \in DOMAIN threads' :
             (pc' # "exited" /\ threads'[t].pc \in WritePcs) => TradeIsolated(t)'
       /\ \A t \in DOMAIN threads :
             (threads[t].pc \in WritePcs /\ threads'[t] = threads[t]) =>
                /\ buyers'[threads[t].buyerIndex] = buyers[threads[t].buyerIndex]
                /\ sellers'[threads[t].sellerIndex] = sellers[threads[t].sellerIndex]
       /\ LockBased =>
             \A t1, t2 \in DOMAIN threads' :
                (/\ t1 # t2
                 /\ threads'[t1].pc \in InMakeTrade
                 /\ threads'[t2].pc \in InMakeTrade) =>
                    /\ threads'[t1].buyerIndex # threads'[t2].buyerIndex
                    /\ threads'[t1].sellerIndex # threads'[t2].sellerIndex]_vars

\* A trade goroutine in the middle of its stores while another, launched for
\* the same buyer, waits for that buyer's mutex.
C15_Witness ==
    \E t1, t2 \in DOMAIN threads :
        /\ LockBased
        /\ t1 # t2
        /\ threads[t1].pc = "sellerPrice"
        /\ threads[t2].pc = "lockBuyer"
        /\ threads[t2].buyerIndex = threads[t1].buyerIndex

\* A step of goroutine t.
stepOf(t) ==
    \/ doTrades_attempt(t)
    \/ doTrades_panic(t)
    \/ doTrades_return(t)
    \/ setBuyerPrice(t)
    \/ setSellerPrice(t)
    \/ setBuyerQuantity(t)
    \/ setSellerQuantity(t)
    \/ lockBuyer(t)
    \/ lockSeller(t)
    \/ makeTrade(t)
    \/ makeTrade_panic(t)
    \/ unlockBuyer(t)
    \/ unlockSeller(t)

\* C16: during trading no goroutine waits on another: whatever the others are
\* doing, a launched goroutine that has not finished can take its next step.
C16_NoWorkerWaits ==
    \A t \in DOMAIN threads :
        (Running /\ threads[t].pc \notin {"done", "panicked"}) => ENABLED stepOf(t)

\* C17: a single-worker run is determined by its configuration (the sources
\* take no seed: the generators are seeded from the clock).  Whatever state
\* the run is in, what the worker's next attempt does is fixed: it cannot both
\* trade and not trade, nor trade at two different prices, so two runs of one
\* configuration end in the same summary.
C17_Determinism ==
    (Partitioned /\ numThreads = 1) =>
        /\ ~(/\ ENABLED (doTrades_attempt(0) /\ trades' # trades)
             /\ ENABLED (doTrades_attempt(0) /\ trades' = trades))
        /\ \A p1, p2 \in 1 .. MaxValue :
              (/\ ENABLED (doTrades_attempt(0) /\ \E e \in trades' \ trades : e.price = p1)
               /\ ENABLED (doTrades_attempt(0) /\ \E e \in trades' \ trades : e.price = p2))
                 => p1 = p2

\* The fields of the agents that are fixed at creation.
created(agents) ==
    [k \in DOMAIN agents |->
        [buyerOrSeller |-> agents[k].buyerOrSeller, value |-> agents[k].value]]

\* C18: once initializeAgents has returned, no step of the run changes the
\* length of buyers or of sellers, or any agent's role or value, and
\* computeStatistics changes no field of any agent.
C18_PopulationFixed ==
    [][/\ pc \notin {"main", "initializeAgents"} =>
             /\ created(buyers') = created(buyers)
             /\ created(sellers') = created(sellers)
       /\ pc = "computeStatistics" => buyers' = buyers /\ sellers' = sellers]_vars

\* A finished run in which a buyer of value 2 has traded.
C18_Witness ==
    /\ pc = "done"
    /\ \E k \in DOMAIN buyers : buyers[k].value = 2 /\ buyers[k].quantityHeld = 1

\* The draws of an attempt on this buyer and this seller are well defined and
\* cover exactly the two price ranges.
DrawsInRange(buyer, seller, bids, asks) ==
    /\ buyer.value >= 1
    /\ maxSellerValue - seller.value + 1 >= 1
    /\ bids = 1 .. buyer.value
    /\ asks = seller.value .. maxSellerValue
    /\ \A bidPrice \in bids, askPrice \in asks :
          bidPrice >= askPrice => bidPrice - askPrice + 1 >= 1

\* C19: in every attempt the bid is drawn from exactly 1 .. buyer.value and
\* the ask from exactly seller.value .. maxSellerValue, and no draw fails: the
\* sizes buyer.value, maxSellerValue - seller.value + 1 and bid - ask + 1 of
\* the ranges drawn from are at least 1.
C19_PriceDraws ==
    \A t \in DOMAIN threads :
        /\ (Partitioned /\ threads[t].pc = "loop" /\ loopContinues(threads[t].i)
               /\ ~selectPanics(t)) =>
              \A buyerIndex \in buyerChoices(t), sellerIndex \in sellerChoices(t) :
                 DrawsInRange(buyers[buyerIndex], sellers[sellerIndex],
                              bidPrices(buyers[buyerIndex]),
                              askPrices(sellers[sellerIndex]))
        /\ (LockBased /\ threads[t].pc = "makeTrade") =>
              DrawsInRange(buyers[threads[t].buyerIndex], sellers[threads[t].sellerIndex],
                           lockBidPrices(buyers[threads[t].buyerIndex]),
                           lockAskPrices(sellers[threads[t].sellerIndex]))
        /\ threads[t].pc \in WritePcs =>
              /\ threads[t].bidPrice \in 1 .. buyers[threads[t].buyerIndex].value
              /\ threads[t].askPrice \in
                    sellers[threads[t].sellerIndex].value .. maxSellerValue

\* C20: the lock-based revision has no deadlock and, under fair scheduling,
\* completes: every state short of the summary has a next step, every trade
\* goroutine that is launched eventually has released its locks and called
\* wg.Done by returning, and computeStatistics eventually has run.
C20_LockBasedCompletes ==
    /\ [](pc # "done" => ENABLED LockNext)
    /\ \A t \in 0 .. (MaxGoroutines - 1) :
          [](t \in DOMAIN threads =>
                <>(t \in DOMAIN threads /\ threads[t].pc = "done"))
    /\ <>(pc = "done")

====
